---- MODULE Spec2Model ----
(***************************************************************************)
(* Model of the ZENIX backend:                                             *)
(*   - ZuduAIClient (backend/app/engine/zudu_integration.py): the async    *)
(*     enrichment client with its retry recursion, backoff sleeps,         *)
(*     fallback dictionary and lazily created aiohttp session;             *)
(*   - POST /auth/register (backend/app/api/auth.py) and                   *)
(*     POST /admin/invite-codes/generate (backend/app/api/admin.py);       *)
(*   - POST /auth/login (backend/app/api/auth.py);                         *)
(*   - the clinical decision pipeline (validator, classifiers, circuit     *)
(*     breaker, arbiter, ledger) as the specification describes it, with   *)
(*     GET /admin/system/health and GET /admin/metrics                     *)
(*     (backend/app/api/admin.py) reading it.                              *)
(* The client and register are modelled at the granularity of asyncio:     *)
(* one action per stretch of code between two awaits that suspend; the     *)
(* generate endpoint is one action per request (all or part of its loop).  *)
(* Floating point values are modelled by integers (5.0 is 5).              *)
(***************************************************************************)
EXTENDS Integers, Sequences, FiniteSets, TLC

(* ------------------------------ bounds --------------------------------- *)
\* largest value of settings.ZUDU_MAX_RETRIES explored (0 is explored too)
MaxRetries == 3
\* number of aiohttp sessions the client may create in one behaviour
MaxSessions == 2

\* number of invite codes generated in one behaviour
MaxCodes == 2
\* the clock runs from day 0 to day MaxTime
MaxTime == 2
\* the breaker's clock runs from 0 to MaxClock
MaxClock == 2
\* number of submissions classified in one behaviour
MaxSubmissions == 3
\* InviteCodeRequest.count: Field(1, ge=1, le=10)
MinCount == 1
MaxCount == 10

\* the analyze_clinical_context calls made on the one global client: two, so
\* that one may overlap the other
Calls == {1, 2}
\* the POST /auth/register requests: two, so that one may overlap or follow
\* the other
Regs == {1, 2}
\* the submissions being classified: two at a time, so that one may overlap
\* the other
Subs == {1, 2}
\* the failure thresholds and cool-down durations the breaker is configured with
Thresholds == {1, 2}
CoolDowns == {1, 2}

(* --------------------------- Zudu AI client ---------------------------- *)
VARIABLES
    api_key,      \* self.api_key
    max_retries,  \* self.max_retries
    session,      \* self._session: 0 is None, else an index into sessions
    sessions,     \* every ClientSession created: [closed, opener]
    pc,           \* where each call is suspended
    attempt,      \* the attempt parameter of the running _make_request
    status,       \* response.status received in the call's latest attempt
    result,       \* <<>> or <<the dictionary analyze_clinical_context returned>>
    last,         \* how the call's latest attempt ended, "none" while it runs
    sent,         \* history: number of session.post calls of each call
    failed,       \* history: attempts that ended in a timeout or a client error
    seen,         \* history: which of the two retried errors the call has met
    sleeps        \* history: the asyncio.sleep delays of each call, in order

zuduVars == <<api_key, max_retries, session, sessions, pc, attempt, status,
              result, last, sent, failed, seen, sleeps>>

(* ------------------- registration and invite codes -------------------- *)
VARIABLES
    users,         \* the users collection; a user's id is its index
    invite_codes,  \* the invite_codes collection; a code is its index
    now,           \* the clock, in days
    rpc,           \* where each register request is suspended
    req,           \* the RegisterRequest of each register request
    resp,          \* HTTP status answered to each register request, 0 if none yet
    logged,        \* the reason register logged with registration_failed
    ruid,          \* user_id of the user the request created, 0 if none
    token,         \* <<>> or <<the claims of the access token returned>>
    seenDoc,       \* history: the invite document as it was when find_one read it
    spent,         \* history: the request's code had registered a doctor when it arrived
    gen,           \* the latest generate_invite_codes request: count, expires_at, codes
    gresp          \* HTTP status answered to it, 0 if none yet

authVars == <<users, invite_codes, now, rpc, req, resp, logged, ruid, token,
              seenDoc, spent, gen, gresp>>

(* ---------------------------- POST /auth/login ------------------------- *)
VARIABLES
    accounts,      \* the users collection as login reads it: the document of each email
    lreq,          \* the OAuth2 form of each login request
    lresp          \* <<>> or <<the response to that login request>>

loginVars == <<accounts, lreq, lresp>>

(* ------------------- clinical decision pipeline ----------------------- *)
VARIABLES
    cb,                 \* CircuitBreakerState: state, failure_count, last_failure_time
    failure_threshold,  \* configured failure threshold N
    cool_down,          \* configured cool-down duration
    clock,              \* the time the breaker reads
    ppc,                \* where each submission is in the pipeline
    snap,               \* the VitalsSnapshot of each submission
    gate,               \* what the breaker answered the submission
    model_result,       \* outcome of its Model Classifier call
    assessment,         \* <<>> or <<the RiskAssessment the Arbiter produced>>
    received,           \* number of RiskAssessments returned to the requester
    append_error,       \* the ledger append failed and was surfaced
    enrichment,         \* InsightEnrichment attached afterwards
    triage_decisions,   \* ledger: number of RiskAssessment records
    honeypot_alerts,    \* ledger: number of HoneypotEvent records
    submitted,          \* submissions made so far
    health,             \* <<>> or <<the latest GET /admin/system/health response>>
    metrics             \* <<>> or <<the latest GET /admin/metrics response>>

pipeVars == <<cb, failure_threshold, cool_down, clock, ppc, snap, gate,
              model_result, assessment, received, append_error, enrichment,
              triage_decisions, honeypot_alerts, submitted, health, metrics>>

vars == <<zuduVars, authVars, pipeVars, loginVars>>

Placeholder == "your_zudu_api_key_here"
ApiKeys == {"", Placeholder, "sk-live"}

\* keys of the dictionary analyze_clinical_context returns
ResultKeys == {"clinical_insights", "recommended_actions", "risk_explanation",
               "urgency_score", "zudu_available"}

\* urgency_score values the external service may send
UrgencyValues == {0 - 1, 7, 11}

\* JSON objects the service answers with on status 200
FullBody(u) == [k \in {"clinical_insights", "recommended_actions",
                       "risk_explanation", "urgency_score"} |->
                  CASE k = "clinical_insights" -> "service narrative"
                    [] k = "recommended_actions" -> <<"service action">>
                    [] k = "risk_explanation" -> "service explanation"
                    [] k = "urgency_score" -> u]
EmptyBody == [k \in {} |-> 0]
ResponseBodies == {EmptyBody} \cup {FullBody(u) : u \in UrgencyValues}

\* dict.get(key, default)
Get(d, k, default) == IF k \in DOMAIN d THEN d[k] ELSE default

\* the dictionary built from the service's answer
SuccessResponse(response) ==
    [clinical_insights |-> Get(response, "clinical_insights", "AI analysis completed"),
     recommended_actions |-> Get(response, "recommended_actions", <<>>),
     risk_explanation |-> Get(response, "risk_explanation", "Risk factors analyzed"),
     urgency_score |-> Get(response, "urgency_score", 5),
     zudu_available |-> TRUE]

FallbackActions == <<"Consult with healthcare provider for detailed evaluation",
                     "Continue monitoring vital signs regularly",
                     "Follow prescribed prenatal care schedule">>

\* mutant: the fallback carries no recommended actions
GetFallbackResponseNoActions(reason) ==
    [clinical_insights |-> <<"Zudu AI unavailable", reason>>,
     recommended_actions |-> <<>>,
     risk_explanation |-> "Standard clinical assessment completed",
     urgency_score |-> 5,
     zudu_available |-> FALSE]

\* _get_fallback_response(reason)
GetFallbackResponse(reason) ==
    [clinical_insights |-> <<"Zudu AI unavailable", reason>>,
     recommended_actions |-> FallbackActions,
     risk_explanation |-> "Standard clinical assessment completed",
     urgency_score |-> 5,
     zudu_available |-> FALSE]

\* mutant: the placeholder key is taken for a configured key
KeyConfiguredNonEmpty(key) == key /= ""

\* the guard `not self.api_key or self.api_key == placeholder`, negated
KeyConfigured(key) == key /= "" /\ key /= Placeholder

\* mutant: the backoff starts at 2 ** 0
SleepTimeFromZero(a) == 2 ^ (a - 1)

\* sleep_time = 2 ** attempt
SleepTime(a) == 2 ^ a

\* mutant: a failed attempt is always followed by a sleep and another attempt
MayRetryAlways(a) == TRUE

\* mutant: one retry too many
MayRetryOffByOne(a) == a <= max_retries

\* the retry guard `attempt < self.max_retries`
MayRetry(a) == a < max_retries

\* ways an attempt can end
Retryable == {"timeout", "client_error"}

\* mutant: a 429 is retried like a timeout
IsRetryableWith429(how) == how \in Retryable \cup {"rate_limit"}

\* mutant: an error status other than 401 and 429 is retried like a timeout
IsRetryableWithApiError(how) == how \in Retryable \cup {"api_error"}

\* the except clauses of _make_request: asyncio.TimeoutError and
\* aiohttp.ClientError are handled by a retry, everything else leaves the function
IsRetryable(how) == how \in Retryable

\* the message of the ZuduAPIException each way of failing raises
ExcMessage(how) ==
    CASE how = "auth" -> "Invalid Zudu AI API key"
      [] how = "rate_limit" -> "Rate limit exceeded"
      [] how = "api_error" -> "API error"
      [] how = "timeout" -> "Request timeout after retries"
      [] how = "client_error" -> "Connection error"
      [] OTHER -> "Unexpected error"

\* the class of the exception that leaves _make_request for each way of failing
ExcClass(how) ==
    CASE how \in {"auth", "rate_limit", "api_error", "timeout", "client_error"}
           -> "ZuduAPIException"
      [] how = "cancelled" -> "CancelledError"
      [] OTHER -> "Exception"

\* mutant: the `except Exception` clause is missing
AnalyzeCatchesOnlyZudu(cls) == cls = "ZuduAPIException"

\* mutant: the cancellation is caught like any exception and answered
AnalyzeCatchesCancelled(cls) ==
    cls \in {"ZuduAPIException", "Exception", "CancelledError"}

\* the except clauses of analyze_clinical_context: ZuduAPIException, Exception.
\* CancelledError derives from BaseException and passes through both.
AnalyzeCatches(cls) == cls \in {"ZuduAPIException", "Exception"}

\* what analyze_clinical_context hands to _get_fallback_response
FallbackReason(how) ==
    IF ExcClass(how) = "ZuduAPIException" THEN ExcMessage(how) ELSE "Unexpected error"

TypeOK ==
    /\ api_key \in ApiKeys
    /\ max_retries \in 0..MaxRetries
    /\ session \in 0..Len(sessions)
    /\ \A c \in Calls :
         /\ pc[c] \in {"idle", "posting", "reading", "sleeping", "returned", "raised"}
         /\ Len(result[c]) \in {0, 1}
         /\ seen[c] \subseteq Retryable

ZuduInit ==
    /\ api_key \in ApiKeys
    /\ max_retries \in 0..MaxRetries
    /\ session = 0
    /\ sessions = <<>>
    /\ pc = [c \in Calls |-> "idle"]
    /\ attempt = [c \in Calls |-> 0]
    /\ status = [c \in Calls |-> "none"]
    /\ result = [c \in Calls |-> <<>>]
    /\ last = [c \in Calls |-> "none"]
    /\ sent = [c \in Calls |-> 0]
    /\ failed = [c \in Calls |-> 0]
    /\ seen = [c \in Calls |-> {}]
    /\ sleeps = [c \in Calls |-> <<>>]

\* mutant: _get_session creates a session for every request
NeedSessionAlways == TRUE

\* the test of _get_session: `self._session is None or self._session.closed`
NeedSession == session = 0 \/ sessions[session].closed

\* _get_session followed by session.post: the coroutine suspends in the request
PostRequest(c, a) ==
    /\ IF NeedSession
          THEN /\ Len(sessions) < MaxSessions
               /\ sessions' = Append(sessions, [closed |-> FALSE, opener |-> c])
               /\ session' = Len(sessions) + 1
          ELSE UNCHANGED <<session, sessions>>
    /\ pc' = [pc EXCEPT ![c] = "posting"]
    /\ attempt' = [attempt EXCEPT ![c] = a]
    /\ sent' = [sent EXCEPT ![c] = @ + 1]
    /\ status' = [status EXCEPT ![c] = "none"]
    /\ last' = [last EXCEPT ![c] = "none"]

\* analyze_clinical_context returns the dictionary r
Return(c, r) ==
    /\ pc' = [pc EXCEPT ![c] = "returned"]
    /\ result' = [result EXCEPT ![c] = <<r>>]
    /\ attempt' = [attempt EXCEPT ![c] = 0]

\* an exception leaves _make_request: the except clauses of
\* analyze_clinical_context turn it into the fallback, or it propagates
Raise(c, how) ==
    IF AnalyzeCatches(ExcClass(how))
       THEN Return(c, GetFallbackResponse(FallbackReason(how)))
       ELSE /\ pc' = [pc EXCEPT ![c] = "raised"]
            /\ attempt' = [attempt EXCEPT ![c] = 0]
            /\ UNCHANGED result

\* the attempt of call c ends with an exception inside _make_request
Fail(c, how) ==
    /\ last' = [last EXCEPT ![c] = how]
    /\ IF IsRetryable(how)
          THEN /\ failed' = [failed EXCEPT ![c] = @ + 1]
               /\ seen' = [seen EXCEPT ![c] = @ \cup {how}]
               /\ IF MayRetry(attempt[c])
                     THEN /\ pc' = [pc EXCEPT ![c] = "sleeping"]
                          /\ sleeps' = [sleeps EXCEPT ![c] =
                                           Append(@, SleepTime(attempt[c]))]
                          /\ UNCHANGED <<attempt, result>>
                     ELSE /\ Raise(c, how)
                          /\ UNCHANGED sleeps
          ELSE /\ Raise(c, how)
               /\ UNCHANGED <<failed, seen, sleeps>>

\* analyze_clinical_context is called: the key check, then the first request
Analyze(c) ==
    /\ pc[c] = "idle"
    /\ IF ~KeyConfigured(api_key)
          THEN /\ Return(c, GetFallbackResponse("API key not configured"))
               /\ UNCHANGED <<session, sessions, sent, status, last>>
          ELSE /\ PostRequest(c, 1)
               /\ UNCHANGED result
    /\ UNCHANGED <<api_key, max_retries, failed, seen, sleeps>>
    /\ UNCHANGED <<authVars, pipeVars, loginVars>>

\* session.post resumes with status 401 or 429: the exception is raised at once
PostRejected(c) ==
    /\ pc[c] = "posting"
    /\ \E s \in {"401", "429"} :
         /\ status' = [status EXCEPT ![c] = s]
         /\ Fail(c, IF s = "401" THEN "auth" ELSE "rate_limit")
    /\ UNCHANGED <<api_key, max_retries, session, sessions, sent>>
    /\ UNCHANGED <<authVars, pipeVars, loginVars>>

\* session.post resumes with a response whose body is read next:
\* response.json() on 200, response.text() on any other status
PostAnswered(c) ==
    /\ pc[c] = "posting"
    /\ \E s \in {"200", "other"} : status' = [status EXCEPT ![c] = s]
    /\ pc' = [pc EXCEPT ![c] = "reading"]
    /\ UNCHANGED <<api_key, max_retries, session, sessions, attempt, result,
                   last, sent, failed, seen, sleeps>>
    /\ UNCHANGED <<authVars, pipeVars, loginVars>>

\* session.post, response.json() or response.text() raises
\* asyncio.TimeoutError or an aiohttp.ClientError
RequestFails(c) ==
    /\ pc[c] \in {"posting", "reading"}
    /\ \E how \in Retryable : Fail(c, how)
    /\ UNCHANGED <<api_key, max_retries, session, sessions, sent, status>>
    /\ UNCHANGED <<authVars, pipeVars, loginVars>>

\* any other exception inside the request (a body that is no JSON, a JSON value
\* that is no object, an encoding error)
RequestBreaks(c) ==
    /\ pc[c] \in {"posting", "reading"}
    /\ Fail(c, "unexpected")
    /\ UNCHANGED <<api_key, max_retries, session, sessions, sent, status>>
    /\ UNCHANGED <<authVars, pipeVars, loginVars>>

\* response.json() returns the JSON object of a 200 response
BodyRead(c) ==
    /\ pc[c] = "reading"
    /\ status[c] = "200"
    /\ \E data \in ResponseBodies : Return(c, SuccessResponse(data))
    /\ last' = [last EXCEPT ![c] = "ok"]
    /\ UNCHANGED <<api_key, max_retries, session, sessions, sent, status,
                   failed, seen, sleeps>>
    /\ UNCHANGED <<authVars, pipeVars, loginVars>>

\* response.text() returns the error text of a response that is not 200
ErrorRead(c) ==
    /\ pc[c] = "reading"
    /\ status[c] = "other"
    /\ Fail(c, "api_error")
    /\ UNCHANGED <<api_key, max_retries, session, sessions, sent, status>>
    /\ UNCHANGED <<authVars, pipeVars, loginVars>>

\* asyncio.sleep returns: _make_request(payload, attempt + 1)
Wake(c) ==
    /\ pc[c] = "sleeping"
    /\ PostRequest(c, attempt[c] + 1)
    /\ UNCHANGED <<api_key, max_retries, result, failed, seen, sleeps>>
    /\ UNCHANGED <<authVars, pipeVars, loginVars>>

\* the task running the call is cancelled while it is suspended in the
\* request, in the reading of the body or in the backoff sleep
Cancel(c) ==
    /\ pc[c] \in {"posting", "reading", "sleeping"}
    /\ Fail(c, "cancelled")
    /\ UNCHANGED <<api_key, max_retries, session, sessions, sent, status>>
    /\ UNCHANGED <<authVars, pipeVars, loginVars>>

\* ZuduAIClient.close
Close ==
    /\ IF session /= 0 /\ ~sessions[session].closed
          THEN sessions' = [sessions EXCEPT ![session].closed = TRUE]
          ELSE UNCHANGED sessions
    /\ UNCHANGED <<api_key, max_retries, session, pc, attempt, status, result,
                   last, sent, failed, seen, sleeps>>
    /\ UNCHANGED <<authVars, pipeVars, loginVars>>

ZuduNext ==
    \/ \E c \in Calls : Analyze(c)
    \/ \E c \in Calls : PostRejected(c)
    \/ \E c \in Calls : PostAnswered(c)
    \/ \E c \in Calls : RequestFails(c)
    \/ \E c \in Calls : RequestBreaks(c)
    \/ \E c \in Calls : BodyRead(c)
    \/ \E c \in Calls : ErrorRead(c)
    \/ \E c \in Calls : Wake(c)
    \/ \E c \in Calls : Cancel(c)
    \/ Close

(* ------------------- POST /auth/register, stepwise --------------------- *)

Emails == <<"a@x.org", "b@x.org">>
\* emails are interchangeable: the n-th request uses one of the first n
EmailsOf(r) == {Emails[i] : i \in 1..(IF r < Len(Emails) THEN r ELSE Len(Emails))}
Roles == {"doctor", "asha"}

\* invite_code values of a request: 0 is None or "", 1..MaxCodes are the codes
\* generate_invite_codes hands out, FakeCode is a string that is never generated
NoCode == 0
FakeCode == MaxCodes + 1

NoRequest == [email |-> "", role |-> "", invite_code |-> NoCode]
NoDoc == [found |-> FALSE, is_used |-> FALSE, dated |-> FALSE, expired |-> FALSE]
NoGen == [count |-> 0, expires_at |-> <<>>, generated_codes |-> <<>>]

AuthInit ==
    /\ users = <<>>
    /\ invite_codes = <<>>
    /\ now = 0
    /\ rpc = [r \in Regs |-> "idle"]
    /\ req = [r \in Regs |-> NoRequest]
    /\ resp = [r \in Regs |-> 0]
    /\ logged = [r \in Regs |-> "none"]
    /\ ruid = [r \in Regs |-> 0]
    /\ token = [r \in Regs |-> <<>>]
    /\ seenDoc = [r \in Regs |-> NoDoc]
    /\ spent = [r \in Regs |-> FALSE]
    /\ gen = NoGen
    /\ gresp = 0

\* user_repo.get_user_by_email(email) finds a user
EmailExists(email) == \E u \in 1..Len(users) : users[u].email = email

\* invite_collection.find_one({"code": code}) finds a document
CodeExists(code) == code \in 1..Len(invite_codes)

\* mutant: a code is honoured for one more day after expires_at
ExpiredAfterGrace(expires_at) == now > expires_at + 1

\* `datetime.now(timezone.utc) > expires_at`
Expired(expires_at) == now > expires_at

\* mutant: the is_used check is left out
InviteVerdictIgnoresUsed(code) ==
    IF ~CodeExists(code) THEN "invalid_invite_code"
    ELSE IF invite_codes[code].expires_at = <<>> THEN "attribute_error"
    ELSE IF Expired(invite_codes[code].expires_at[1]) THEN "invite_code_expired"
    ELSE "ok"

\* the checks register makes on the document find_one returned: the reason it
\* logs, "attribute_error" when expires_at is None (None has no tzinfo), or "ok"
InviteVerdict(code) ==
    IF ~CodeExists(code) THEN "invalid_invite_code"
    ELSE IF invite_codes[code].is_used THEN "invite_code_reused"
    ELSE IF invite_codes[code].expires_at = <<>> THEN "attribute_error"
    ELSE IF Expired(invite_codes[code].expires_at[1]) THEN "invite_code_expired"
    ELSE "ok"

\* mutant: the role is not looked at, as before the SL-1 fix
NeedsInviteNever(role) == FALSE

\* the branch `if request.role == "doctor"` that guards the invite code checks
NeedsInvite(role) == role = "doctor"

\* mutant: the code is marked whenever the request carries one
MarksCodeAnyRole(request) == request.invite_code /= NoCode

\* the branch `if request.role == "doctor" and request.invite_code` before update_one
MarksCode(request) == request.role = "doctor" /\ request.invite_code /= NoCode

\* mutant: every failure, an unhandled error included, is answered 403
RejectAlways403(r, code, why) ==
    /\ rpc' = [rpc EXCEPT ![r] = "done"]
    /\ resp' = [resp EXCEPT ![r] = 403]
    /\ logged' = [logged EXCEPT ![r] = why]

\* the request is answered with an HTTPException or an unhandled error
Reject(r, code, why) ==
    /\ rpc' = [rpc EXCEPT ![r] = "done"]
    /\ resp' = [resp EXCEPT ![r] = code]
    /\ logged' = [logged EXCEPT ![r] = why]

\* the request is answered 201 with a TokenResponse
Accept(r, uid) ==
    /\ rpc' = [rpc EXCEPT ![r] = "done"]
    /\ resp' = [resp EXCEPT ![r] = 201]
    /\ token' = [token EXCEPT ![r] = <<[sub |-> uid, role |-> req[r].role]>>]

\* what find_one read, kept as history
Seen(code) ==
    IF CodeExists(code)
       THEN [found |-> TRUE,
             is_used |-> invite_codes[code].is_used,
             dated |-> invite_codes[code].expires_at /= <<>>,
             expired |-> /\ invite_codes[code].expires_at /= <<>>
                         /\ now > invite_codes[code].expires_at[1]]
       ELSE NoDoc

\* a doctor registration with this invite code has been answered 201
Registered(code) ==
    \E q \in Regs :
        resp[q] = 201 /\ req[q].role = "doctor" /\ req[q].invite_code = code

\* a register request arrives and get_user_by_email returns: 409, or 403 for a
\* doctor without a code, or on to find_one (doctor) or create_user (other roles)
RegisterCall(r) ==
    /\ rpc[r] = "idle"
    /\ \E e \in EmailsOf(r), ro \in Roles,
          ic \in {NoCode, FakeCode} \cup (1..Len(invite_codes)) :
         /\ req' = [req EXCEPT ![r] = [email |-> e, role |-> ro, invite_code |-> ic]]
         /\ spent' = [spent EXCEPT ![r] = Registered(ic)]
         /\ IF EmailExists(e)
               THEN Reject(r, 409, "email_exists")
               ELSE IF NeedsInvite(ro)
                       THEN IF ic = NoCode
                               THEN Reject(r, 403, "missing_invite_code")
                               ELSE /\ rpc' = [rpc EXCEPT ![r] = "find_invite"]
                                    /\ UNCHANGED <<resp, logged>>
                       ELSE /\ rpc' = [rpc EXCEPT ![r] = "create_user"]
                            /\ UNCHANGED <<resp, logged>>
    /\ UNCHANGED <<users, invite_codes, now, ruid, token, seenDoc, gen, gresp>>
    /\ UNCHANGED <<zuduVars, pipeVars, loginVars>>

\* find_one returns: the checks on the document, then on to create_user
FindInvite(r) ==
    /\ rpc[r] = "find_invite"
    /\ seenDoc' = [seenDoc EXCEPT ![r] = Seen(req[r].invite_code)]
    /\ LET v == InviteVerdict(req[r].invite_code) IN
         IF v = "ok"
            THEN /\ rpc' = [rpc EXCEPT ![r] = "create_user"]
                 /\ UNCHANGED <<resp, logged>>
            ELSE Reject(r, IF v = "attribute_error" THEN 500 ELSE 403, v)
    /\ UNCHANGED <<users, invite_codes, now, req, ruid, token, spent, gen, gresp>>
    /\ UNCHANGED <<zuduVars, pipeVars, loginVars>>

\* create_user returns the new user's id; a doctor's code is marked next
CreateUser(r) ==
    /\ rpc[r] = "create_user"
    /\ users' = Append(users, [email |-> req[r].email, role |-> req[r].role])
    /\ ruid' = [ruid EXCEPT ![r] = Len(users) + 1]
    /\ IF MarksCode(req[r])
          THEN /\ rpc' = [rpc EXCEPT ![r] = "mark_used"]
               /\ UNCHANGED <<resp, token>>
          ELSE Accept(r, Len(users) + 1)
    /\ UNCHANGED <<invite_codes, now, req, logged, seenDoc, spent, gen, gresp>>
    /\ UNCHANGED <<zuduVars, pipeVars, loginVars>>

\* update_one marks the code used; the token is issued
MarkUsed(r) ==
    /\ rpc[r] = "mark_used"
    /\ invite_codes' =
         [c \in 1..Len(invite_codes) |->
            IF c = req[r].invite_code
               THEN [invite_codes[c] EXCEPT !.is_used = TRUE, !.used_by = ruid[r]]
               ELSE invite_codes[c]]
    /\ Accept(r, ruid[r])
    /\ UNCHANGED <<users, now, req, logged, ruid, seenDoc, spent, gen, gresp>>
    /\ UNCHANGED <<zuduVars, pipeVars, loginVars>>

\* the database operation the request is suspended in raises: the exception
\* is not handled and the request is answered 500
DbFails(r) ==
    /\ rpc[r] \in {"find_invite", "create_user", "mark_used"}
    /\ Reject(r, 500, "database_error")
    /\ UNCHANGED <<users, invite_codes, now, req, ruid, token, seenDoc,
                   spent, gen, gresp>>
    /\ UNCHANGED <<zuduVars, pipeVars, loginVars>>

(* ------------------ POST /admin/invite-codes/generate ------------------ *)

\* InviteCodeRequest.expires_days as asked: NoDays is None, else a number of days
NoDays == 0
ExpiresDays == {NoDays, 1}

\* expires_at = utcnow() + timedelta(days=expires_days), None without expires_days
ExpiresAt(days) == IF days = NoDays THEN <<>> ELSE <<now + days>>

\* the document of a new code
InviteDoc(expires_at) ==
    [role |-> "doctor", is_used |-> FALSE, expires_at |-> expires_at, used_by |-> 0]

\* the documents the loop inserts in its first n rounds
Inserted(expires_at, n) == [i \in 1..n |-> InviteDoc(expires_at)]

\* mutant: the codes are returned latest first
NewCodesReversed(n) == [i \in 1..n |-> Len(invite_codes) + n + 1 - i]

\* the codes of those documents: each round draws a fresh token
NewCodes(n) == [i \in 1..n |-> Len(invite_codes) + i]

\* generate_invite_codes runs to its end: expires_at is computed once, the loop
\* inserts count documents and the codes are returned in the order of insertion
GenerateInviteCodes ==
    /\ \E count \in MinCount..MaxCount, days \in ExpiresDays :
         /\ Len(invite_codes) + count <= MaxCodes
         /\ invite_codes' = invite_codes \o Inserted(ExpiresAt(days), count)
         /\ gen' = [count |-> count, expires_at |-> ExpiresAt(days),
                    generated_codes |-> NewCodes(count)]
    /\ gresp' = 200
    /\ UNCHANGED <<users, now, rpc, req, resp, logged, ruid, token, seenDoc, spent>>
    /\ UNCHANGED <<zuduVars, pipeVars, loginVars>>

\* insert_one raises in some round of the loop: the request is answered 500,
\* the documents inserted in the rounds before stay
GenerateFails ==
    /\ \E count \in MinCount..MaxCount, days \in ExpiresDays, n \in 0..MaxCodes :
         /\ Len(invite_codes) + count <= MaxCodes
         /\ n < count
         /\ invite_codes' = invite_codes \o Inserted(ExpiresAt(days), n)
         /\ gen' = [count |-> count, expires_at |-> ExpiresAt(days),
                    generated_codes |-> <<>>]
    /\ gresp' = 500
    /\ UNCHANGED <<users, now, rpc, req, resp, logged, ruid, token, seenDoc, spent>>
    /\ UNCHANGED <<zuduVars, pipeVars, loginVars>>

\* a day passes
Tick ==
    /\ now < MaxTime
    /\ now' = now + 1
    /\ UNCHANGED <<users, invite_codes, rpc, req, resp, logged, ruid, token,
                   seenDoc, spent, gen, gresp>>
    /\ UNCHANGED <<zuduVars, pipeVars, loginVars>>

AuthNext ==
    \/ \E r \in Regs : RegisterCall(r)
    \/ \E r \in Regs : FindInvite(r)
    \/ \E r \in Regs : CreateUser(r)
    \/ \E r \in Regs : MarkUsed(r)
    \/ \E r \in Regs : DbFails(r)
    \/ GenerateInviteCodes
    \/ GenerateFails
    \/ Tick

(* ---------------------------- POST /auth/login ------------------------- *)

Logins == {1, 2}
LoginEmails == {"a@x.org", "b@x.org"}
Passwords == {"pw1", "pw2"}

\* get_user_by_email returns None
NoAccount == [id |-> 0, hashed_password |-> <<>>, is_active |-> <<>>, role |-> ""]

\* hash_password: the stored value is not the password itself
HashPassword(password) == <<"hash", password>>

\* verify_password(plain, hashed)
VerifyPassword(password, hashed) == hashed = HashPassword(password)

\* the documents an email can have: is_active is True, False or absent
AccountsOf(id, role) ==
    {[id |-> id, hashed_password |-> HashPassword(pw), is_active |-> act, role |-> role] :
        pw \in Passwords, act \in {<<>>, <<TRUE>>, <<FALSE>>}}

\* the users collections login is run against
AccountTables ==
    {[e \in LoginEmails |-> IF e = "a@x.org" THEN a ELSE b] :
        a \in {NoAccount} \cup AccountsOf(1, "doctor"),
        b \in {NoAccount} \cup AccountsOf(2, "asha")}

NoLogin == [username |-> "", password |-> ""]

\* `user.get("is_active", True)`
IsActive(user) == IF user.is_active = <<>> THEN TRUE ELSE user.is_active[1]

\* the HTTPException raised when no user has the email
UserNotFound ==
    [status |-> 401, detail |-> "Incorrect email or password",
     headers |-> <<"WWW-Authenticate", "Bearer">>, token |-> <<>>]

\* the HTTPException raised when verify_password fails
InvalidPassword ==
    [status |-> 401, detail |-> "Incorrect email or password",
     headers |-> <<"WWW-Authenticate", "Bearer">>, token |-> <<>>]

\* the HTTPException raised for an inactive account
AccountInactive ==
    [status |-> 403, detail |-> "Account is inactive", headers |-> <<>>, token |-> <<>>]

\* the TokenResponse, with the claims of its access token
LoginToken(user) ==
    [status |-> 200, detail |-> "", headers |-> <<>>,
     token |-> <<[sub |-> user.id, role |-> user.role]>>]

\* the answer to an exception login does not handle
LoginError ==
    [status |-> 500, detail |-> "Internal Server Error", headers |-> <<>>, token |-> <<>>]

\* mutant: the account is checked for being active before the password
LoginResponseActiveFirst(user, password) ==
    IF user = NoAccount THEN UserNotFound
    ELSE IF ~IsActive(user) THEN AccountInactive
    ELSE IF ~VerifyPassword(password, user.hashed_password) THEN InvalidPassword
    ELSE LoginToken(user)

\* what login answers once get_user_by_email has returned user
LoginResponse(user, password) ==
    IF user = NoAccount THEN UserNotFound
    ELSE IF ~VerifyPassword(password, user.hashed_password) THEN InvalidPassword
    ELSE IF ~IsActive(user) THEN AccountInactive
    ELSE LoginToken(user)

LoginInit ==
    /\ accounts \in AccountTables
    /\ lreq = [l \in Logins |-> NoLogin]
    /\ lresp = [l \in Logins |-> <<>>]

\* no account and no login request: the state the other parts run in
LoginIdle ==
    /\ accounts = [e \in LoginEmails |-> NoAccount]
    /\ lreq = [l \in Logins |-> NoLogin]
    /\ lresp = [l \in Logins |-> <<>>]

\* a login request: get_user_by_email returns and the request is answered
Login(l) ==
    /\ \E e \in LoginEmails, pw \in Passwords :
         /\ lreq' = [lreq EXCEPT ![l] = [username |-> e, password |-> pw]]
         /\ lresp' = [lresp EXCEPT ![l] = <<LoginResponse(accounts[e], pw)>>]
    /\ UNCHANGED accounts
    /\ UNCHANGED <<zuduVars, authVars, pipeVars>>

\* a login request during which get_user_by_email raises
LoginDbFails(l) ==
    /\ \E e \in LoginEmails, pw \in Passwords :
         lreq' = [lreq EXCEPT ![l] = [username |-> e, password |-> pw]]
    /\ lresp' = [lresp EXCEPT ![l] = <<LoginError>>]
    /\ UNCHANGED accounts
    /\ UNCHANGED <<zuduVars, authVars, pipeVars>>

LoginNext ==
    \/ \E l \in Logins : Login(l)
    \/ \E l \in Logins : LoginDbFails(l)

(* ------------------- clinical decision pipeline ----------------------- *)
\* The pipeline, the classifiers, the breaker (app.engine.circuit) and the
\* ledger (app.db.fsm_repository) are modelled from the specification; of this
\* part only GET /admin/system/health is in the source.

Tiers == {"LOW", "MEDIUM", "HIGH", "CRITICAL"}
TierRank == [LOW |-> 1, MEDIUM |-> 2, HIGH |-> 3, CRITICAL |-> 4]
MaxTier(a, b) == IF TierRank[a] >= TierRank[b] THEN a ELSE b

EngineSources == {"RULES", "MODEL", "RULES_FALLBACK"}

\* a required field that is absent from the submission
Missing == 0

\* the submissions explored: systolic pressure, age, and whether the honeypot
\* heuristic of the Validator flags the combination
Snapshots ==
    {[systolic |-> Missing, age |-> 30, suspicious |-> FALSE],
     [systolic |-> 120, age |-> 30, suspicious |-> FALSE],
     [systolic |-> 120, age |-> 36, suspicious |-> TRUE],
     [systolic |-> 150, age |-> 36, suspicious |-> FALSE]}

NoSnapshot == [systolic |-> Missing, age |-> 0, suspicious |-> FALSE]

\* Vitals Validator: a required field is missing or out of its absolute bound
Validates(v) == v.systolic /= Missing

\* Rule Classifier: the ordered threshold predicates, one alert per match
RulePredicates(v) ==
    <<[alert |-> "HYPERTENSIVE_CRISIS", matched |-> v.systolic >= 140],
      [alert |-> "ADVANCED_MATERNAL_AGE", matched |-> v.age >= 35]>>

Matched(p) == p.matched

RuleAlerts(v) ==
    LET hits == SelectSeq(RulePredicates(v), Matched)
    IN  [i \in 1..Len(hits) |-> hits[i].alert]

AlertTier(alert) == IF alert = "HYPERTENSIVE_CRISIS" THEN "HIGH" ELSE "MEDIUM"

RECURSIVE HighestTier(_)
HighestTier(alerts) ==
    IF alerts = <<>> THEN "LOW"
    ELSE MaxTier(AlertTier(Head(alerts)), HighestTier(Tail(alerts)))

RuleClassifier(v) == [alerts |-> RuleAlerts(v), tier |-> HighestTier(RuleAlerts(v))]

\* tiers the Model Classifier may answer
ModelTiers == {"LOW", "CRITICAL"}
ModelFailures == {"error", "timeout"}

\* mutant: the model's tier replaces the rule tier
FinalTierModelOnly(rule_tier, outcome) ==
    IF outcome \in Tiers THEN outcome ELSE rule_tier

\* Decision Arbiter: the maximum of the two tiers when a model result is present
FinalTier(rule_tier, outcome) ==
    IF outcome \in Tiers THEN MaxTier(outcome, rule_tier) ELSE rule_tier

\* engine source: RULES_FALLBACK without a model result, MODEL when the model
\* overrides upward, RULES otherwise
SourceOf(rule_tier, outcome) ==
    IF outcome \notin Tiers THEN "RULES_FALLBACK"
    ELSE IF TierRank[outcome] > TierRank[rule_tier] THEN "MODEL"
    ELSE "RULES"

\* Decision Arbiter: the rule alerts are always attached
Arbiter(v, outcome) ==
    LET rule == RuleClassifier(v)
    IN  [tier |-> FinalTier(rule.tier, outcome),
         alerts |-> rule.alerts,
         engine_source |-> SourceOf(rule.tier, outcome)]

\* the cool-down of an OPEN breaker has elapsed at time t
CoolDownElapsed(b, t) == t - b.last_failure_time >= cool_down

\* mutant: every caller that finds HALF_OPEN is let through
AdmitsEveryProbe(b, t) ==
    IF b.state = "CLOSED" THEN "allowed"
    ELSE IF b.state = "OPEN" /\ ~CoolDownElapsed(b, t) THEN "denied"
    ELSE "probe"

\* mutant: an OPEN breaker lets calls through
AdmitsWhenOpen(b, t) ==
    IF b.state \in {"CLOSED", "OPEN"} THEN "allowed" ELSE "denied"

\* what the breaker answers a caller at time t
Admits(b, t) ==
    IF b.state = "CLOSED" THEN "allowed"
    ELSE IF b.state = "OPEN" /\ CoolDownElapsed(b, t) THEN "probe"
    ELSE "denied"

\* the breaker after answering: the caller admitted as probe moves it to HALF_OPEN
AfterGate(b, t) ==
    IF Admits(b, t) = "probe" THEN [b EXCEPT !.state = "HALF_OPEN"] ELSE b

\* mutant: a success leaves the counter as it is
OnSuccessKeepsCount(b, g) ==
    IF b.state = "HALF_OPEN" /\ g = "probe"
       THEN [b EXCEPT !.state = "CLOSED"]
       ELSE b

\* the breaker after a call admitted as g succeeded
OnSuccess(b, g) ==
    IF b.state = "CLOSED" THEN [b EXCEPT !.failure_count = 0]
    ELSE IF b.state = "HALF_OPEN" /\ g = "probe"
            THEN [b EXCEPT !.state = "CLOSED", !.failure_count = 0]
            ELSE b

\* mutant: a failed probe keeps the old cool-down running
OnFailureKeepsTime(b, g, t) ==
    IF b.state = "CLOSED"
       THEN [state |-> IF b.failure_count + 1 >= failure_threshold
                          THEN "OPEN" ELSE "CLOSED",
             failure_count |-> b.failure_count + 1,
             last_failure_time |-> t]
       ELSE IF b.state = "HALF_OPEN" /\ g = "probe"
               THEN [b EXCEPT !.state = "OPEN"]
               ELSE b

\* the breaker after a call admitted as g failed or timed out at time t
OnFailure(b, g, t) ==
    IF b.state = "CLOSED"
       THEN [state |-> IF b.failure_count + 1 >= failure_threshold
                          THEN "OPEN" ELSE "CLOSED",
             failure_count |-> b.failure_count + 1,
             last_failure_time |-> t]
       ELSE IF b.state = "HALF_OPEN" /\ g = "probe"
               THEN [b EXCEPT !.state = "OPEN", !.last_failure_time = t]
               ELSE b

\* circuit_breaker.get_status()
GetStatus(b) ==
    [state |-> b.state, failure_count |-> b.failure_count,
     last_failure_time |-> b.last_failure_time]

\* mutant: reading the status of an OPEN breaker whose cool-down has elapsed
\* moves it to HALF_OPEN, as the gate does
AfterStatusProbes(b, t) == AfterGate(b, t)

\* the breaker after get_status() was read at time t
AfterStatus(b, t) == b

\* FSMTriageRepository.get_fsm_statistics(): the honeypot count comes from the
\* honeypot_alerts collection
GetFsmStatistics ==
    [total_executions |-> triage_decisions, honeypot_triggers |-> honeypot_alerts]

\* the overall status get_system_health derives from the two checks
OverallStatus(db_connected, ml_loaded) ==
    IF db_connected /\ ml_loaded THEN "healthy"
    ELSE IF db_connected THEN "degraded"
    ELSE "unhealthy"

\* mutant: the honeypot count is taken from the assessments
SystemHealthCountsDecisions(db_connected, ml_loaded, cb_status, fsm_stats) ==
    [status |-> OverallStatus(db_connected, ml_loaded),
     database_connected |-> db_connected,
     ml_model_loaded |-> ml_loaded,
     circuit_breaker_state |-> cb_status.state,
     fsm_statistics |-> [fsm_stats EXCEPT !.honeypot_triggers = fsm_stats.total_executions]]

\* the dictionary get_system_health returns (without its timestamp)
SystemHealth(db_connected, ml_loaded, cb_status, fsm_stats) ==
    [status |-> OverallStatus(db_connected, ml_loaded),
     database_connected |-> db_connected,
     ml_model_loaded |-> ml_loaded,
     circuit_breaker_state |-> cb_status.state,
     fsm_statistics |-> fsm_stats]

\* the SystemMetrics get_metrics returns (without its timestamp)
SystemMetrics(cb_status, is_connected) ==
    [circuit_breaker |-> cb_status,
     database_status |-> [connected |-> is_connected],
     request_metrics |-> [total_requests |-> 0, error_rate |-> 0,
                          avg_response_time_ms |-> 0]]

PipeInit ==
    /\ cb = [state |-> "CLOSED", failure_count |-> 0, last_failure_time |-> 0]
    /\ failure_threshold \in Thresholds
    /\ cool_down \in CoolDowns
    /\ clock = 0
    /\ ppc = [s \in Subs |-> "idle"]
    /\ snap = [s \in Subs |-> NoSnapshot]
    /\ gate = [s \in Subs |-> "none"]
    /\ model_result = [s \in Subs |-> "none"]
    /\ assessment = [s \in Subs |-> <<>>]
    /\ received = [s \in Subs |-> 0]
    /\ append_error = [s \in Subs |-> FALSE]
    /\ enrichment = [s \in Subs |-> "none"]
    /\ triage_decisions = 0
    /\ honeypot_alerts = 0
    /\ submitted = 0
    /\ health = <<>>
    /\ metrics = <<>>

\* the submission is being classified
InFlight(s) == ppc[s] \in {"gate", "model", "ledger"}

\* classify(VitalsSnapshot) is called, in the first slot that is free: the Validator rejects the submission or
\* lets it on to the breaker, recording a HoneypotEvent when the heuristic fires
Submit(s) ==
    /\ ppc[s] \in {"idle", "done", "rejected"}
    /\ \A o \in Subs : o < s => InFlight(o)
    /\ submitted < MaxSubmissions
    /\ submitted' = submitted + 1
    /\ \E v \in Snapshots :
         /\ snap' = [snap EXCEPT ![s] = v]
         /\ IF Validates(v)
               THEN /\ ppc' = [ppc EXCEPT ![s] = "gate"]
                    /\ honeypot_alerts' =
                         IF v.suspicious THEN honeypot_alerts + 1 ELSE honeypot_alerts
               ELSE /\ ppc' = [ppc EXCEPT ![s] = "rejected"]
                    /\ UNCHANGED honeypot_alerts
    /\ gate' = [gate EXCEPT ![s] = "none"]
    /\ model_result' = [model_result EXCEPT ![s] = "none"]
    /\ assessment' = [assessment EXCEPT ![s] = <<>>]
    /\ received' = [received EXCEPT ![s] = 0]
    /\ append_error' = [append_error EXCEPT ![s] = FALSE]
    /\ enrichment' = [enrichment EXCEPT ![s] = "none"]
    /\ UNCHANGED <<cb, failure_threshold, cool_down, clock, triage_decisions, health, metrics>>
    /\ UNCHANGED <<zuduVars, authVars, loginVars>>

\* the breaker answers the submission, in one step under its lock; a
\* submission it denies goes to the Arbiter with the rule result alone
Gate(s) ==
    /\ ppc[s] = "gate"
    /\ gate' = [gate EXCEPT ![s] = Admits(cb, clock)]
    /\ cb' = AfterGate(cb, clock)
    /\ IF Admits(cb, clock) = "denied"
          THEN /\ assessment' = [assessment EXCEPT ![s] = <<Arbiter(snap[s], "none")>>]
               /\ ppc' = [ppc EXCEPT ![s] = "ledger"]
          ELSE /\ ppc' = [ppc EXCEPT ![s] = "model"]
               /\ UNCHANGED assessment
    /\ UNCHANGED <<failure_threshold, cool_down, clock, snap, model_result,
                   received, append_error, enrichment,
                   triage_decisions, honeypot_alerts, submitted, health, metrics>>
    /\ UNCHANGED <<zuduVars, authVars, loginVars>>

\* the Model Classifier answers with a tier: the breaker records the success
\* and the Arbiter produces the RiskAssessment
ModelSucceeds(s) ==
    /\ ppc[s] = "model"
    /\ \E t \in ModelTiers :
         /\ model_result' = [model_result EXCEPT ![s] = t]
         /\ assessment' = [assessment EXCEPT ![s] = <<Arbiter(snap[s], t)>>]
    /\ cb' = OnSuccess(cb, gate[s])
    /\ ppc' = [ppc EXCEPT ![s] = "ledger"]
    /\ UNCHANGED <<failure_threshold, cool_down, clock, snap, gate,
                   received, append_error, enrichment,
                   triage_decisions, honeypot_alerts, submitted, health, metrics>>
    /\ UNCHANGED <<zuduVars, authVars, loginVars>>

\* the Model Classifier errors or runs into its timeout: the breaker records
\* the failure and the Arbiter produces the RiskAssessment
ModelFails(s) ==
    /\ ppc[s] = "model"
    /\ \E how \in ModelFailures :
         /\ model_result' = [model_result EXCEPT ![s] = how]
         /\ assessment' = [assessment EXCEPT ![s] = <<Arbiter(snap[s], how)>>]
    /\ cb' = OnFailure(cb, gate[s], clock)
    /\ ppc' = [ppc EXCEPT ![s] = "ledger"]
    /\ UNCHANGED <<failure_threshold, cool_down, clock, snap, gate,
                   received, append_error, enrichment,
                   triage_decisions, honeypot_alerts, submitted, health, metrics>>
    /\ UNCHANGED <<zuduVars, authVars, loginVars>>

\* what a submission holds while it is classified, dropped when it is answered
Answered(s) ==
    /\ received' = [received EXCEPT ![s] = @ + 1]
    /\ ppc' = [ppc EXCEPT ![s] = "enrich"]
    /\ snap' = [snap EXCEPT ![s] = NoSnapshot]
    /\ gate' = [gate EXCEPT ![s] = "none"]
    /\ model_result' = [model_result EXCEPT ![s] = "none"]
    /\ assessment' = [assessment EXCEPT ![s] = <<>>]

\* the ledger acknowledges the append and the assessment is returned
LedgerAppends(s) ==
    /\ ppc[s] = "ledger"
    /\ triage_decisions' = triage_decisions + 1
    /\ Answered(s)
    /\ UNCHANGED <<cb, failure_threshold, cool_down, clock, append_error,
                   enrichment, honeypot_alerts, submitted, health, metrics>>
    /\ UNCHANGED <<zuduVars, authVars, loginVars>>

\* mutant: a failed append ends the request without an assessment
LedgerFailsSilently(s) ==
    /\ ppc[s] = "ledger"
    /\ ppc' = [ppc EXCEPT ![s] = "done"]
    /\ snap' = [snap EXCEPT ![s] = NoSnapshot]
    /\ gate' = [gate EXCEPT ![s] = "none"]
    /\ model_result' = [model_result EXCEPT ![s] = "none"]
    /\ assessment' = [assessment EXCEPT ![s] = <<>>]
    /\ UNCHANGED <<cb, failure_threshold, cool_down, clock, received, append_error,
                   enrichment, triage_decisions, honeypot_alerts, submitted, health, metrics>>
    /\ UNCHANGED <<zuduVars, authVars, loginVars>>

\* the append fails: the error is surfaced and the assessment is still returned
LedgerFails(s) ==
    /\ ppc[s] = "ledger"
    /\ append_error' = [append_error EXCEPT ![s] = TRUE]
    /\ Answered(s)
    /\ UNCHANGED <<cb, failure_threshold, cool_down, clock, enrichment,
                   triage_decisions, honeypot_alerts, submitted, health, metrics>>
    /\ UNCHANGED <<zuduVars, authVars, loginVars>>

\* off the critical path, the enrichment or its fallback is attached; the
\* request is over
Enrich(s) ==
    /\ ppc[s] = "enrich"
    /\ \E e \in {"enriched", "fallback"} : enrichment' = [enrichment EXCEPT ![s] = e]
    /\ ppc' = [ppc EXCEPT ![s] = "done"]
    /\ append_error' = [append_error EXCEPT ![s] = FALSE]
    /\ UNCHANGED <<cb, failure_threshold, cool_down, clock, snap, gate,
                   model_result, assessment, received,
                   triage_decisions, honeypot_alerts, submitted, health, metrics>>
    /\ UNCHANGED <<zuduVars, authVars, loginVars>>

\* time passes
ClockTick ==
    /\ clock < MaxClock
    /\ clock' = clock + 1
    /\ UNCHANGED <<cb, failure_threshold, cool_down, ppc, snap, gate,
                   model_result, assessment, received, append_error, enrichment,
                   triage_decisions, honeypot_alerts, submitted, health, metrics>>
    /\ UNCHANGED <<zuduVars, authVars, loginVars>>

\* GET /admin/system/health
GetSystemHealth ==
    /\ \E db_connected \in BOOLEAN, ml_loaded \in BOOLEAN :
         health' = <<SystemHealth(db_connected, ml_loaded, GetStatus(cb),
                                  GetFsmStatistics)>>
    /\ cb' = AfterStatus(cb, clock)
    /\ UNCHANGED <<failure_threshold, cool_down, clock, ppc, snap, gate,
                   model_result, assessment, received, append_error, enrichment,
                   triage_decisions, honeypot_alerts, submitted, metrics>>
    /\ UNCHANGED <<zuduVars, authVars, loginVars>>

\* GET /admin/metrics
GetMetrics ==
    /\ \E is_connected \in BOOLEAN :
         metrics' = <<SystemMetrics(GetStatus(cb), is_connected)>>
    /\ cb' = AfterStatus(cb, clock)
    /\ UNCHANGED <<failure_threshold, cool_down, clock, ppc, snap, gate,
                   model_result, assessment, received, append_error, enrichment,
                   triage_decisions, honeypot_alerts, submitted, health>>
    /\ UNCHANGED <<zuduVars, authVars, loginVars>>

PipeNext ==
    \/ \E s \in Subs : Submit(s)
    \/ \E s \in Subs : Gate(s)
    \/ \E s \in Subs : ModelSucceeds(s)
    \/ \E s \in Subs : ModelFails(s)
    \/ \E s \in Subs : LedgerAppends(s)
    \/ \E s \in Subs : LedgerFails(s)
    \/ \E s \in Subs : Enrich(s)
    \/ ClockTick

\* submissions classified one at a time, the health endpoint read at any time
HealthNext ==
    \/ Submit(1)
    \/ Gate(1)
    \/ ModelSucceeds(1)
    \/ ModelFails(1)
    \/ LedgerAppends(1)
    \/ LedgerFails(1)
    \/ Enrich(1)
    \/ ClockTick
    \/ GetSystemHealth

\* submissions classified one at a time, both admin endpoints reading the
\* breaker of a deployment whose database is connected and whose model is loaded
StatusNext ==
    \/ Submit(1)
    \/ Gate(1)
    \/ ModelSucceeds(1)
    \/ ModelFails(1)
    \/ LedgerAppends(1)
    \/ Enrich(1)
    \/ ClockTick
    \/ GetSystemHealth /\ health'[1].status = "healthy"
    \/ GetMetrics /\ metrics'[1].database_status.connected

(* --------------------------- specifications ---------------------------- *)

\* the enrichment client alone
Init ==
    /\ ZuduInit
    /\ AuthInit
    /\ PipeInit
    /\ LoginIdle
    /\ failure_threshold = 1
    /\ cool_down = 1

Next == ZuduNext

Spec == Init /\ [][Next]_vars

\* registration and invite codes alone, the client left unused
AuthOnlyInit ==
    /\ ZuduInit
    /\ api_key = "sk-live"
    /\ max_retries = MaxRetries
    /\ AuthInit
    /\ PipeInit
    /\ LoginIdle
    /\ failure_threshold = 1
    /\ cool_down = 1

AuthOnlyNext == AuthNext

SpecAuth == AuthOnlyInit /\ [][AuthOnlyNext]_vars

\* the decision pipeline alone, the client and the registration left unused
PipeOnlyInit ==
    /\ ZuduInit
    /\ api_key = "sk-live"
    /\ max_retries = MaxRetries
    /\ AuthInit
    /\ PipeInit
    /\ LoginIdle

PipeOnlyNext == PipeNext

SpecPipeline == PipeOnlyInit /\ [][PipeOnlyNext]_vars

\* the step a submission that is being classified takes next: the breaker
\* answers it, its Model Classifier call ends (by the enforced timeout at the
\* latest), its ledger append completes or definitively fails
Proceeds(s) ==
    \/ Gate(s)
    \/ ModelSucceeds(s)
    \/ ModelFails(s)
    \/ LedgerAppends(s)
    \/ LedgerFails(s)

\* the pipeline with its scheduling: no submission is held up for ever
PipeFairness == \A s \in Subs : WF_vars(Proceeds(s))

\* the breaker opening at the first failure, with the shortest cool-down
QuickBreakerInit ==
    /\ PipeOnlyInit
    /\ failure_threshold = 1
    /\ cool_down = 1

SpecPipelineFair == QuickBreakerInit /\ [][PipeOnlyNext]_vars /\ PipeFairness

\* GET /admin/system/health over the pipeline's ledger and breaker
SpecHealth == QuickBreakerInit /\ [][HealthNext]_vars

\* GET /admin/system/health and GET /admin/metrics reading the breaker
SpecStatus == QuickBreakerInit /\ [][StatusNext]_vars

\* login alone, run against each of the users collections
LoginOnlyInit ==
    /\ ZuduInit
    /\ api_key = "sk-live"
    /\ max_retries = MaxRetries
    /\ AuthInit
    /\ PipeInit
    /\ failure_threshold = 1
    /\ cool_down = 1
    /\ LoginInit

SpecLogin == LoginOnlyInit /\ [][LoginNext]_vars

(* ------------------ claims about the Zudu AI client -------------------- *)

\* every attempt the call has made ended in a timeout or a connection error
AllAttemptsFailed(c) == sent[c] >= 1 /\ failed[c] = sent[c]

IsFallback(r) ==
    /\ r.zudu_available = FALSE
    /\ r.recommended_actions /= <<>>
    /\ r.urgency_score = 5

\* C1: with max_retries >= 1 a call never sends more than max_retries requests,
\* whatever mix of timeouts and connection errors it meets, and a call that has
\* returned after nothing but timeouts and connection errors sent exactly
\* max_retries requests.
C1_AtMostMaxRetriesRequests ==
    \A c \in Calls :
        max_retries >= 1 =>
            /\ sent[c] <= max_retries
            /\ (pc[c] = "returned" /\ AllAttemptsFailed(c) => sent[c] = max_retries)

C1_Witness ==
    \E c \in Calls :
        /\ max_retries >= 3
        /\ pc[c] = "returned"
        /\ AllAttemptsFailed(c)
        /\ seen[c] = Retryable
        /\ sent[c] = max_retries

\* C2: analyze_clinical_context never raises on a service outcome: the only
\* exception that leaves it is the caller's own cancellation, and every call
\* that ended otherwise returned a dictionary with the five result keys.
C2_NeverRaises ==
    \A c \in Calls :
        /\ pc[c] = "raised" => last[c] = "cancelled"
        /\ last[c] \notin {"none", "cancelled"} /\ pc[c] /= "sleeping" =>
               pc[c] = "returned"
        /\ pc[c] = "returned" =>
               /\ Len(result[c]) = 1
               /\ DOMAIN result[c][1] = ResultKeys

C2_Witness ==
    \E c \in Calls :
        /\ pc[c] = "returned"
        /\ last[c] = "unexpected"
        /\ DOMAIN result[c][1] = ResultKeys

\* C3: a call all of whose attempts timed out or failed to connect returns
\* the fallback: zudu_available false, recommended actions not empty,
\* urgency score 5; it returns only once no attempt is left.
C3_FallbackAfterExhaustion ==
    \A c \in Calls :
        pc[c] = "returned" /\ AllAttemptsFailed(c) =>
            /\ IsFallback(result[c][1])
            /\ ~(sent[c] < max_retries)

C3_Witness ==
    \E c \in Calls :
        /\ pc[c] = "returned"
        /\ AllAttemptsFailed(c)
        /\ sent[c] >= 2
        /\ IsFallback(result[c][1])

\* every attempt of the call was answered 429 (none timed out or failed to connect)
Only429(c) ==
    status[c] = "429" /\ last[c] = "rate_limit" /\ seen[c] \cap Retryable = {}

\* C4 as stated: a service that answers 429 on every attempt is asked
\* max_retries times before the fallback is returned.
C4_Original ==
    \A c \in Calls :
        max_retries >= 1 /\ pc[c] = "returned" /\ Only429(c) =>
            /\ sent[c] = max_retries
            /\ result[c][1].zudu_available = FALSE

\* C4 amended: a 429 is not retried. A service that answers 429 is asked
\* exactly once, no backoff sleep is taken, and the fallback with
\* zudu_available false is returned, whatever max_retries is.
C4_Amended ==
    \A c \in Calls :
        Only429(c) =>
            /\ pc[c] = "returned"
            /\ sent[c] = 1
            /\ sleeps[c] = <<>>
            /\ result[c] = <<GetFallbackResponse("Rate limit exceeded")>>
            /\ result[c][1].zudu_available = FALSE

C4_Witness ==
    \E c \in Calls :
        /\ max_retries >= 2
        /\ Only429(c)
        /\ pc[c] = "returned"
        /\ sent[c] = 1

NonRetryableStatus == {"401", "429", "other"}

\* C5 as stated: once a 401, a 429 or another non-200 status has been received,
\* no backoff sleep and no further request follow, and what is returned is
\* the fallback.
C5_Original ==
    \A c \in Calls :
        status[c] \in NonRetryableStatus =>
            /\ pc[c] \in {"reading", "returned", "raised"}
            /\ Len(sleeps[c]) = sent[c] - 1
            /\ (pc[c] = "returned" => result[c][1].zudu_available = FALSE)

\* C5 amended: a 401 or a 429 ends the call at once with the fallback. Any
\* other non-200 status does so once its error text has been read; if reading
\* that text times out or fails with a client error, the attempt is retried
\* like any other timeout or connection error.
C5_Amended ==
    \A c \in Calls :
        /\ status[c] \in {"401", "429"} =>
               /\ pc[c] = "returned"
               /\ Len(sleeps[c]) = sent[c] - 1
               /\ result[c][1].zudu_available = FALSE
        /\ status[c] = "other" /\ last[c] \in {"none", "api_error", "unexpected"} =>
               /\ pc[c] \in {"reading", "returned", "raised"}
               /\ Len(sleeps[c]) = sent[c] - 1
               /\ (pc[c] = "returned" =>
                      /\ last[c] \in {"api_error", "unexpected"}
                      /\ result[c][1].zudu_available = FALSE)
        /\ status[c] = "other" /\ last[c] \in Retryable =>
               IF sent[c] < max_retries
                  THEN pc[c] = "sleeping" /\ Len(sleeps[c]) = sent[c]
                  ELSE pc[c] = "returned" /\ result[c][1].zudu_available = FALSE

C5_Witness ==
    \E c \in Calls :
        /\ status[c] = "other"
        /\ last[c] = "api_error"
        /\ pc[c] = "returned"
        /\ sent[c] = 2
        /\ max_retries = 3
        /\ Len(sleeps[c]) = 1

\* C6: the k-th backoff sleep of a call lasts 2^k: it follows failed attempt k
\* and precedes attempt k+1, for timeouts and connection errors alike.
C6_ExponentialBackoff ==
    \A c \in Calls :
        /\ \A k \in 1..Len(sleeps[c]) : sleeps[c][k] = 2 ^ k
        /\ pc[c] = "sleeping" =>
               Len(sleeps[c]) = attempt[c] /\ failed[c] = attempt[c]
        /\ pc[c] \in {"posting", "reading"} =>
               Len(sleeps[c]) = attempt[c] - 1 /\ failed[c] = attempt[c] - 1

C6_Witness ==
    \E c \in Calls :
        /\ sleeps[c] = <<2, 4>>
        /\ seen[c] = Retryable
        /\ pc[c] = "posting"
        /\ attempt[c] = 3

\* C7: with an empty or placeholder API key every call returns the fallback
\* at once: no session is ever created, self._session stays None and no
\* request is sent.
C7_NoKeyNoNetwork ==
    api_key \in {"", Placeholder} =>
        /\ session = 0
        /\ sessions = <<>>
        /\ \A c \in Calls :
              /\ sent[c] = 0
              /\ pc[c] \in {"idle", "returned"}
              /\ pc[c] = "returned" =>
                     result[c] = <<GetFallbackResponse("API key not configured")>>

C7_Witness ==
    \E c \in Calls :
        /\ api_key = Placeholder
        /\ pc[c] = "returned"
        /\ result[c][1].zudu_available = FALSE
        /\ session = 0

\* the sessions call c created that are still open
OpenSessionsOf(c) ==
    {s \in 1..Len(sessions) : sessions[s].opener = c /\ ~sessions[s].closed}

\* C8 as stated: after a cancellation nothing the call opened stays open.
C8_Original ==
    \A c \in Calls :
        pc[c] = "raised" /\ last[c] = "cancelled" => OpenSessionsOf(c) = {}

\* C8 amended: a cancellation in a request, in the reading of a body or in a
\* backoff sleep ends the call with the CancelledError: the call returns nothing,
\* takes no further sleep and sends no further request. The cancellation
\* closes no session: a session the call created stays as it is, in
\* self._session, until close() is called.
C8_Amended ==
    [][\A c \in Calls :
          /\ last'[c] = "cancelled" /\ last[c] /= "cancelled" =>
                /\ pc[c] \in {"posting", "reading", "sleeping"}
                /\ pc'[c] = "raised"
                /\ result'[c] = <<>>
                /\ UNCHANGED <<session, sessions>>
          /\ pc[c] = "raised" =>
                /\ pc'[c] = "raised"
                /\ sent'[c] = sent[c]
                /\ sleeps'[c] = sleeps[c]
                /\ result'[c] = <<>>]_vars

C8_Witness ==
    \E c \in Calls :
        /\ pc[c] = "raised"
        /\ last[c] = "cancelled"
        /\ Len(sleeps[c]) = sent[c]
        /\ sent[c] >= 1
        /\ OpenSessionsOf(c) /= {}

\* C9: every returned dictionary has an urgency score within [0, 10].
C9_UrgencyInRange ==
    \A c \in Calls :
        pc[c] = "returned" => result[c][1].urgency_score \in 0..10

(* ------------------- claims about POST /auth/register ------------------- *)

\* the request asked for the doctor role without a code or with a code that
\* was never generated
DoctorWithoutCode(r) ==
    req[r].role = "doctor" /\ req[r].invite_code \in {NoCode, FakeCode}

\* find_one showed the request a code that existed, was unused and not expired
SawValidCode(r) ==
    seenDoc[r].found /\ ~seenDoc[r].is_used /\ ~seenDoc[r].expired

\* every doctor in the users collection was created by a request that had
\* been shown a valid code
DoctorsHadValidCode ==
    \A u \in 1..Len(users) :
        users[u].role = "doctor" =>
            \E r \in Regs : ruid[r] = u /\ req[r].role = "doctor" /\ SawValidCode(r)

LaterDoctorRequest(r) == spent[r] /\ req[r].role = "doctor"

\* C11 as stated (no database operation failing): once a doctor registration
\* with an invite code has succeeded, every later doctor request with the
\* same code is answered 403 and creates no user, whatever its email.
C11_Original ==
    \A r \in Regs :
        LaterDoctorRequest(r) =>
            /\ ruid[r] = 0
            /\ rpc[r] = "done" /\ logged[r] /= "database_error" => resp[r] = 403

\* C11 amended: such a later request never creates a user and gets no token.
\* It is answered 403 (invite_code_reused) unless its email is already
\* registered, which is checked first and answered 409, or the lookup of the
\* code fails in the database, which is answered 500.
C11_Amended ==
    \A r \in Regs :
        LaterDoctorRequest(r) =>
            /\ ruid[r] = 0
            /\ token[r] = <<>>
            /\ rpc[r] \in {"find_invite", "done"}
            /\ rpc[r] = "done" =>
                  \/ /\ resp[r] = 403
                     /\ logged[r] = "invite_code_reused"
                     /\ seenDoc[r].is_used
                  \/ /\ resp[r] = 409
                     /\ logged[r] = "email_exists"
                     /\ EmailExists(req[r].email)
                  \/ /\ resp[r] = 500
                     /\ logged[r] = "database_error"

\* a later request with the spent code and another email was answered 403
C11_Witness ==
    \E r \in Regs, q \in Regs :
        /\ LaterDoctorRequest(r)
        /\ resp[q] = 201 /\ req[q].role = "doctor"
        /\ req[q].invite_code = req[r].invite_code
        /\ req[q].email /= req[r].email
        /\ resp[r] = 403

\* C12: a doctor request with a new email and a generated code that find_one
\* showed unused and not expired is, once answered (no database operation
\* failing), answered 201; it created a user with role doctor and the code
\* is left with is_used = True and used_by equal to that user's id.
C12_ValidCodeRegisters ==
    \A r \in Regs :
        /\ req[r].role = "doctor"
        /\ SawValidCode(r)
        /\ rpc[r] = "done"
        /\ logged[r] /= "database_error"
        => /\ resp[r] = 201
           /\ ruid[r] \in 1..Len(users)
           /\ users[ruid[r]].role = "doctor"
           /\ invite_codes[req[r].invite_code].is_used
           /\ invite_codes[req[r].invite_code].used_by = ruid[r]

\* the request asked for a role other than doctor
OtherRole(r) == req[r].role \in Roles \ {"doctor"}

\* the request was answered 201 and created a user with its role
Registers(r) ==
    /\ resp[r] = 201
    /\ ruid[r] \in 1..Len(users)
    /\ users[ruid[r]] = [email |-> req[r].email, role |-> req[r].role]
    /\ token[r] = <<[sub |-> ruid[r], role |-> req[r].role]>>

\* the request never reaches find_one or update_one of invite_codes
ReadsNoInvite(r) ==
    /\ rpc[r] \in {"create_user", "done"}
    /\ seenDoc[r] = NoDoc
    /\ logged[r] \in {"none", "email_exists", "database_error"}

\* C13: a request with a role other than doctor and a new email is answered
\* 201 when create_user returns, with or without an invite_code value; it
\* never reads an invite code, and no step of it changes invite_codes.
C13_OtherRolesNeedNoCode ==
    [][\A r \in Regs :
         OtherRole(r)' =>
             /\ ReadsNoInvite(r)'
             /\ rpc'[r] = "done" /\ logged'[r] = "none" => Registers(r)'
             /\ rpc'[r] /= rpc[r] => invite_codes' = invite_codes]_vars

\* an asha request carrying a generated, unused code was answered 201 and the
\* code is still unused
C13_Witness ==
    \E r \in Regs :
        /\ OtherRole(r)
        /\ req[r].invite_code \in 1..Len(invite_codes)
        /\ Registers(r)
        /\ ~invite_codes[req[r].invite_code].is_used

(* ---------------- claims about the decision pipeline ------------------- *)

\* submission s gets the outcome of its Model Classifier call in this step
ModelReturns(s) == ppc[s] = "model" /\ ppc'[s] = "ledger"
ModelFailed(s) == ModelReturns(s) /\ model_result'[s] \in ModelFailures
ModelSucceeded(s) == ModelReturns(s) /\ model_result'[s] \in Tiers

\* submission s is answered by the breaker in this step
Gated(s) == ppc[s] = "gate" /\ ppc'[s] /= "gate"

\* the Arbiter produces the assessment of submission s in this step
Produces(s) == assessment[s] = <<>> /\ assessment'[s] /= <<>>

\* C14: from CLOSED with counter 0, the breaker is CLOSED only with fewer
\* than N consecutive failures counted; a failure in CLOSED adds one to the
\* counter and opens the breaker exactly when the counter reaches N; a
\* success in CLOSED resets the counter to zero and leaves the breaker
\* CLOSED; nothing else moves the breaker from CLOSED to OPEN.
C14_OpensAtThreshold ==
    /\ [](cb.state = "CLOSED" => cb.failure_count < failure_threshold)
    /\ [][\A s \in Subs :
            cb.state = "CLOSED" =>
              /\ ModelFailed(s) =>
                    /\ cb'.failure_count = cb.failure_count + 1
                    /\ cb'.state = IF cb'.failure_count = failure_threshold
                                      THEN "OPEN" ELSE "CLOSED"
              /\ ModelSucceeded(s) =>
                    cb'.failure_count = 0 /\ cb'.state = "CLOSED"]_vars
    /\ [][cb.state = "CLOSED" /\ cb'.state = "OPEN" =>
            \E s \in Subs : ModelFailed(s)]_vars

\* with threshold 2: a failure, a success and a failure left the breaker
\* CLOSED with one failure counted
C14_Witness ==
    /\ failure_threshold = 2
    /\ cb.state = "CLOSED"
    /\ cb.failure_count = 1
    /\ triage_decisions = 3

\* the breaker is OPEN and its cool-down has not elapsed
HoldsOpen == cb.state = "OPEN" /\ ~CoolDownElapsed(cb, clock)

Probes == {s \in Subs : gate[s] = "probe" /\ ppc[s] = "model"}

\* C16: the breaker is HALF_OPEN exactly while one probe is in flight, never
\* two; the caller that finds the cool-down elapsed is the probe, and every
\* request that reaches the breaker before the probe resolves is denied and
\* assessed as RULES_FALLBACK.
C16_OneProbe ==
    /\ [](Cardinality(Probes) <= 1)
    /\ [](cb.state = "HALF_OPEN" <=> Probes /= {})
    /\ [][\A s \in Subs :
            Gated(s) =>
              /\ cb.state = "HALF_OPEN" =>
                    /\ gate'[s] = "denied"
                    /\ Produces(s)
                    /\ assessment'[s][1].engine_source = "RULES_FALLBACK"
              /\ cb.state = "OPEN" /\ CoolDownElapsed(cb, clock) =>
                    gate'[s] = "probe" /\ ppc'[s] = "model"
              /\ gate'[s] = "probe" =>
                    cb.state = "OPEN" /\ CoolDownElapsed(cb, clock)]_vars

\* while the probe is in flight another submission was denied
C16_Witness ==
    \E s \in Subs, o \in Subs :
        /\ s \in Probes
        /\ gate[o] = "denied"
        /\ ppc[o] = "ledger"
        /\ cb.state = "HALF_OPEN"

\* C17: a probe that succeeds moves the breaker to CLOSED with the counter
\* at zero; a probe that fails or times out moves it to OPEN with the
\* cool-down running from the time of that failure; nothing else moves the
\* breaker out of HALF_OPEN.
C17_ProbeDecides ==
    /\ [][\A s \in Subs :
            gate[s] = "probe" =>
              /\ ModelSucceeded(s) =>
                    cb'.state = "CLOSED" /\ cb'.failure_count = 0
              /\ ModelFailed(s) =>
                    /\ cb'.state = "OPEN"
                    /\ cb'.last_failure_time = clock
                    /\ ~CoolDownElapsed(cb', clock)]_vars
    /\ [][cb.state = "HALF_OPEN" /\ cb'.state /= "HALF_OPEN" =>
            \E s \in Subs : gate[s] = "probe" /\ ModelReturns(s)]_vars

\* a probe timed out after the first failure and the breaker is OPEN again,
\* its cool-down running from the time of the timeout
C17_Witness ==
    \E s \in Subs :
        /\ gate[s] = "probe"
        /\ model_result[s] = "timeout"
        /\ cb.state = "OPEN"
        /\ cb.last_failure_time = clock
        /\ clock > 0

\* the larger of two ranks
MaxRank(a, b) == IF a >= b THEN a ELSE b

\* C18: the tier of every RiskAssessment is the maximum of the rule tier and
\* the model tier when the model answered and the rule tier otherwise, hence
\* never lower than the rule tier; it carries every alert of the Rule
\* Classifier, in order, on both paths.
C18_TierIsMaximum ==
    \A s \in Subs :
        assessment[s] /= <<>> =>
            LET a == assessment[s][1]
                rule == RuleClassifier(snap[s])
            IN  /\ TierRank[a.tier] =
                      IF model_result[s] \in Tiers
                         THEN MaxRank(TierRank[rule.tier], TierRank[model_result[s]])
                         ELSE TierRank[rule.tier]
                /\ TierRank[a.tier] >= TierRank[rule.tier]
                /\ a.alerts = rule.alerts

\* the model answered LOW for a submission the rules rate HIGH with two alerts
C18_Witness ==
    \E s \in Subs :
        /\ assessment[s] /= <<>>
        /\ model_result[s] = "LOW"
        /\ assessment[s][1].tier = "HIGH"
        /\ Len(assessment[s][1].alerts) = 2

\* C19: a submission is classified only if it passes validation; a rejected
\* submission reaches neither the breaker nor a classifier; a classified
\* submission is eventually returned its RiskAssessment, exactly one and
\* with one engine source, whatever the model, the breaker, the honeypot
\* heuristic, the ledger append and the enrichment do.
C19_AlwaysAssessed ==
    /\ [](\A s \in Subs :
            /\ received[s] <= 1
            /\ InFlight(s) => Validates(snap[s]) /\ received[s] = 0
            /\ ppc[s] = "rejected" =>
                  /\ ~Validates(snap[s])
                  /\ gate[s] = "none"
                  /\ model_result[s] = "none"
                  /\ assessment[s] = <<>>
                  /\ received[s] = 0
            /\ ppc[s] \in {"enrich", "done"} => received[s] = 1
            /\ assessment[s] /= <<>> =>
                  assessment[s][1].engine_source \in EngineSources)
    /\ \A s \in Subs : InFlight(s) ~> (received[s] = 1)

\* a flagged submission was answered although the model failed, the breaker
\* opened, the append failed (nothing is in the ledger) and the enrichment
\* fell back
C19_Witness ==
    \E s \in Subs :
        /\ ppc[s] = "done"
        /\ received[s] = 1
        /\ enrichment[s] = "fallback"
        /\ cb.state = "OPEN"
        /\ honeypot_alerts = 1
        /\ triage_decisions = 0
        /\ submitted = 1

(* ------------- claims about GET /admin/system/health ------------------- *)

\* a valid submission that the honeypot heuristic flags is recorded in this step
HoneypotRecorded ==
    \E s \in Subs :
        /\ ppc[s] /= "gate" /\ ppc'[s] = "gate"
        /\ snap'[s].suspicious

\* C20: the honeypot_triggers of every health response is the number of
\* HoneypotEvent records at that time; that number grows by one with each
\* HoneypotEvent recorded and changes in no other step, in particular not
\* when a RiskAssessment is appended to the ledger.
C20_HoneypotCount ==
    /\ [][health' /= health =>
            health'[1].fsm_statistics.honeypot_triggers = honeypot_alerts]_vars
    /\ [][honeypot_alerts' =
            IF HoneypotRecorded THEN honeypot_alerts + 1 ELSE honeypot_alerts]_vars
    /\ [][triage_decisions' /= triage_decisions =>
            GetFsmStatistics'.honeypot_triggers = GetFsmStatistics.honeypot_triggers]_vars

\* a health response reports one honeypot trigger with two assessments in the ledger
C20_Witness ==
    /\ health /= <<>>
    /\ health[1].fsm_statistics.honeypot_triggers = 1
    /\ health[1].fsm_statistics.total_executions = 2
    /\ honeypot_alerts = 1

(* ---------------- claims about reading the breaker status -------------- *)

\* one of the two admin endpoints that call get_status answers
ReadsStatus == GetSystemHealth \/ GetMetrics

\* C21: a step of GET /admin/system/health or GET /admin/metrics, both of
\* which call get_status, leaves the breaker's state, failure counter and
\* last-failure time as they were, in every breaker state, OPEN with the
\* cool-down elapsed included.
C21_StatusReadsKeepBreaker ==
    [][ReadsStatus =>
          /\ cb'.state = cb.state
          /\ cb'.failure_count = cb.failure_count
          /\ cb'.last_failure_time = cb.last_failure_time]_vars

\* both endpoints have reported an OPEN breaker that is still OPEN with its
\* cool-down elapsed
C21_Witness ==
    /\ cb.state = "OPEN"
    /\ CoolDownElapsed(cb, clock)
    /\ health /= <<>>
    /\ health[1].circuit_breaker_state = "OPEN"
    /\ metrics /= <<>>
    /\ metrics[1].circuit_breaker = GetStatus(cb)

(* ------------- claims about invite codes under concurrency ------------ *)

\* the request is a doctor registration with this code whose create_user has
\* returned: it has created a doctor account
CreatedDoctorWith(r, code) ==
    /\ req[r] /= NoRequest
    /\ req[r].role = "doctor"
    /\ req[r].invite_code = code
    /\ ruid[r] /= 0

\* C22: of the register requests that present the same invite code with
\* different emails, in any interleaving, at most one creates a doctor account.
C22_OneDoctorPerCode ==
    \A code \in 1..Len(invite_codes) :
        \A r1, r2 \in Regs :
            /\ CreatedDoctorWith(r1, code)
            /\ CreatedDoctorWith(r2, code)
            /\ req[r1].email /= req[r2].email
            => r1 = r2

(* ---------------- claims about the expiry of invite codes --------------- *)

\* find_one showed the doctor request an unused code that was generated
\* without expires_days
SawUndatedCode(r) ==
    /\ req[r].role = "doctor"
    /\ seenDoc[r].found
    /\ ~seenDoc[r].is_used
    /\ ~seenDoc[r].dated

\* C23: a code generated without expires_days never expires: a doctor request
\* with a new email that is shown such a code unused is, at any time and once
\* answered (no database operation failing), answered 201.
C23_UndatedCodeRegisters ==
    \A r \in Regs :
        /\ SawUndatedCode(r)
        /\ rpc[r] = "done"
        /\ logged[r] /= "database_error"
        => resp[r] = 201

\* the code exists, is unused and its expires_at is earlier than the current time
ExpiredUnused(code) ==
    /\ code \in 1..Len(invite_codes)
    /\ ~invite_codes[code].is_used
    /\ invite_codes[code].expires_at /= <<>>
    /\ invite_codes[code].expires_at[1] < now

\* the step is one of a doctor request that presents such a code: its arrival
\* or the return of its find_one
StepWithExpiredCode(r) ==
    /\ rpc[r] \in {"idle", "find_invite"}
    /\ rpc'[r] /= rpc[r]
    /\ req'[r].role = "doctor"
    /\ ExpiredUnused(req'[r].invite_code)

\* the step creates no user and changes no invite code
ChangesNothing(r) ==
    /\ users' = users
    /\ invite_codes' = invite_codes
    /\ ruid'[r] = 0
    /\ token'[r] = <<>>

Rejects(r) ==
    /\ rpc[r] /= "done"
    /\ rpc'[r] = "done"
    /\ resp'[r] \in {403, 409}

\* the reasons register logs with a 409 or a 403
RejectReasons ==
    {"email_exists", "missing_invite_code", "invalid_invite_code",
     "invite_code_reused", "invite_code_expired"}

\* C25: the step that answers a register request 409 or 403 leaves users and
\* every invite code unchanged, and the request has created no user and got
\* no token before; so a valid unused code presented with a registered email
\* stays unused.
C25_RejectedChangesNothing ==
    [][\A r \in Regs :
         Rejects(r) =>
             /\ users' = users
             /\ invite_codes' = invite_codes
             /\ ruid'[r] = 0
             /\ token'[r] = <<>>
             /\ logged'[r] \in RejectReasons
             /\ rpc[r] \in {"idle", "find_invite"}]_vars

\* a doctor request with a registered email and a valid unused code was
\* answered 409 and the code is still unused
C25_Witness ==
    \E r \in Regs :
        /\ resp[r] = 409
        /\ req[r].role = "doctor"
        /\ req[r].invite_code \in 1..Len(invite_codes)
        /\ InviteVerdict(req[r].invite_code) = "ok"
        /\ Len(users) = 1

(* ------------- claims about failure between the two writes ------------ *)

\* C26: creating a doctor account and marking its invite code used are atomic
\* with respect to failure: once a doctor request has ended, normally or by
\* an error of create_user or update_one, the account it created, if any,
\* has an invite code with is_used = True.
C26_AccountImpliesCodeUsed ==
    \A r \in Regs :
        /\ rpc[r] = "done"
        /\ req[r].role = "doctor"
        /\ ruid[r] /= 0
        => invite_codes[req[r].invite_code].is_used

(* ------------- claims about POST /admin/invite-codes/generate ---------- *)

\* the step is a generate_invite_codes call returning its codes: each call
\* returns fresh codes, so the record of the latest call changes
GenerateReturns == gen' /= gen /\ gresp' = 200

\* C27: a generate_invite_codes call with count = n that returns has inserted
\* exactly n documents, each with role doctor, is_used = False, used_by = None
\* and the one expires_at of the call; it returns the codes of exactly those
\* documents in the order of insertion, and it changes no invite code that
\* existed before and no user.
C27_GeneratesExactlyCount ==
    [][GenerateReturns =>
         LET n == gen'.count
             before == Len(invite_codes) IN
           /\ n \in MinCount..MaxCount
           /\ Len(invite_codes') = before + n
           /\ \A c \in 1..before : invite_codes'[c] = invite_codes[c]
           /\ \A c \in (before + 1)..(before + n) :
                 /\ invite_codes'[c].role = "doctor"
                 /\ invite_codes'[c].is_used = FALSE
                 /\ invite_codes'[c].used_by = 0
                 /\ invite_codes'[c].expires_at = gen'.expires_at
           /\ Len(gen'.generated_codes) = n
           /\ \A i \in 1..n : gen'.generated_codes[i] = before + i
           /\ users' = users]_vars

\* a call with count = 1 returned the second code while the first code had
\* registered a doctor, and that code and the doctor are as they were
C27_Witness ==
    /\ gresp = 200
    /\ gen.count = 1
    /\ gen.generated_codes = <<2>>
    /\ Len(invite_codes) = 2
    /\ invite_codes[1].is_used
    /\ ~invite_codes[2].is_used
    /\ Len(users) = 1

(* -------------------- claims about POST /auth/login -------------------- *)

\* the document the users collection holds for the email of the request
UserOf(l) == accounts[lreq[l].username]

\* the request named an email no user has
UnknownEmail(l) == UserOf(l) = NoAccount

\* the request named a user's email with a password that is not the user's
WrongPassword(l) ==
    UserOf(l) /= NoAccount /\ UserOf(l).hashed_password /= HashPassword(lreq[l].password)

\* login answered the request itself: the lookup of the user did not raise
LoginAnswered(l) == lresp[l] /= <<>> /\ lresp[l][1].status /= 500

\* C28: login issues a token only when the email belongs to a user, the
\* password verifies and the account is active; an unknown email and a known
\* email with a wrong password get the same 401 response, detail and headers
\* included; an inactive account gets 403 only when its password is correct.
C28_LoginChecks ==
    /\ \A l \in Logins :
          lresp[l] /= <<>> /\ lresp[l][1].token /= <<>> =>
              /\ ~UnknownEmail(l)
              /\ ~WrongPassword(l)
              /\ UserOf(l).is_active /= <<FALSE>>
              /\ lresp[l][1].token[1].sub = UserOf(l).id
    /\ \A l1, l2 \in Logins :
          /\ LoginAnswered(l1) /\ UnknownEmail(l1)
          /\ LoginAnswered(l2) /\ WrongPassword(l2)
          => /\ lresp[l1][1].status = 401
             /\ lresp[l1] = lresp[l2]
    /\ \A l \in Logins :
          lresp[l] /= <<>> /\ lresp[l][1].status = 403 =>
              /\ ~UnknownEmail(l)
              /\ ~WrongPassword(l)
              /\ UserOf(l).is_active = <<FALSE>>

\* an unknown email and an inactive account's email with a wrong password
\* have both been answered 401
C28_Witness ==
    \E l1, l2 \in Logins :
        /\ LoginAnswered(l1) /\ UnknownEmail(l1)
        /\ LoginAnswered(l2) /\ WrongPassword(l2)
        /\ UserOf(l2).is_active = <<FALSE>>
        /\ lresp[l2][1].status = 401

(* ---------------- claims about the client's HTTP session -------------- *)

\* the sessions created so far that are not closed
Unclosed(all) == {s \in 1..Len(all) : ~all[s].closed}

\* C29: the client holds at most one unclosed session at any time, and that
\* one is self._session; a session is created only when self._session is None
\* or closed, and otherwise the existing one is kept, whatever the
\* interleaving of requests and close() calls; close() closes nothing but an
\* open self._session.
C29_OneOpenSession ==
    [][/\ Cardinality(Unclosed(sessions')) <= 1
       /\ Unclosed(sessions') \subseteq {session'}
       /\ Len(sessions') > Len(sessions) =>
             /\ session = 0 \/ sessions[session].closed
             /\ Len(sessions') = Len(sessions) + 1
             /\ session' = Len(sessions')
       /\ Len(sessions') = Len(sessions) => session' = session
       /\ \A s \in 1..Len(sessions) :
             sessions'[s].closed /= sessions[s].closed =>
                 s = session /\ ~sessions[s].closed]_vars

\* two calls are suspended in their requests; the session the first one
\* created has been closed and the second one has created the open one
C29_Witness ==
    /\ Len(sessions) = 2
    /\ sessions[1].closed
    /\ ~sessions[2].closed
    /\ session = 2
    /\ sessions[1].opener /= sessions[2].opener
    /\ \A c \in Calls : pc[c] = "posting"

(* ---------------- claims about the total backoff of a call ------------- *)

RECURSIVE SumOf(_)
\* the sum of a sequence of delays
SumOf(delays) == IF delays = <<>> THEN 0 ELSE Head(delays) + SumOf(Tail(delays))

\* the call has ended after nothing but timeouts and connection errors
Exhausted(c) ==
    /\ pc[c] = "returned"
    /\ AllAttemptsFailed(c)
    /\ last[c] \in Retryable

\* no sleep follows the failure of attempt number max_retries or of a later one
NoSleepAfterFinalAttempt(c) == pc[c] = "sleeping" => attempt[c] < max_retries

\* C30 as stated, for every max_retries: no backoff sleep follows the final
\* attempt, and a call whose attempts all failed has slept
\* 2^max_retries - 2 time units in total when it ends.
C30_Original ==
    \A c \in Calls :
        /\ NoSleepAfterFinalAttempt(c)
        /\ Exhausted(c) => SumOf(sleeps[c]) = 2 ^ max_retries - 2

\* C30 amended: the same for max_retries >= 1; the call has then made
\* max_retries attempts and slept after each but the last.
C30_Amended ==
    \A c \in Calls :
        /\ NoSleepAfterFinalAttempt(c)
        /\ max_retries >= 1 /\ Exhausted(c) =>
              /\ SumOf(sleeps[c]) = 2 ^ max_retries - 2
              /\ Len(sleeps[c]) = max_retries - 1
              /\ sent[c] = max_retries

\* a call with max_retries = 3 has ended after three failed attempts and
\* slept 2 + 4 = 6 time units
C30_Witness ==
    \E c \in Calls :
        /\ max_retries = 3
        /\ Exhausted(c)
        /\ sleeps[c] = <<2, 4>>
        /\ SumOf(sleeps[c]) = 6

====
